---- MODULE Spec2Model ----
(***************************************************************************)
(* A model of the BlockC ledger: entities with balances and histories,     *)
(* signed transactions, hash-sealed blocks and the chain that links them.  *)
(*                                                                         *)
(* Strings are sequences of one-character strings, so that the             *)
(* separator-free concatenations of Block::hash and create_and_sign are    *)
(* computed as the code computes them.  f64 amounts are modelled by        *)
(* integers (Rust prints 50.0 as "50").                                    *)
(***************************************************************************)
EXTENDS Integers, Sequences, FiniteSets, TLC

(***************************************************************************)
(* Bounds of the model.                                                    *)
(***************************************************************************)
MaxTime == 2        \* get_time() answers a value of 1..MaxTime
MaxAmount == 1      \* amounts range over -MaxAmount..MaxAmount
MaxBalance == 1     \* initial balances range over 0..MaxBalance
MaxOps == 2         \* entity operations performed in one behaviour
MaxBlocks == 2      \* blocks appended after genesis

Times == 1..MaxTime
Amounts == (-MaxAmount)..MaxAmount

(***************************************************************************)
(* Text: decimal formatting, concatenation and the digest.                 *)
(***************************************************************************)
Digit(d) ==
    CASE d = 0 -> "0" [] d = 1 -> "1" [] d = 2 -> "2" [] d = 3 -> "3"
      [] d = 4 -> "4" [] d = 5 -> "5" [] d = 6 -> "6" [] d = 7 -> "7"
      [] d = 8 -> "8" [] d = 9 -> "9"

RECURSIVE FormatU32(_)
\* format!("{}", n) of a u32: its decimal digits, no padding
FormatU32(n) ==
    IF n < 10 THEN <<Digit(n)>>
    ELSE FormatU32(n \div 10) \o <<Digit(n % 10)>>

\* format!("{}", a) of an f64 holding an integral value: "-" and the digits
FormatF64(a) ==
    IF a < 0 THEN <<"-">> \o FormatU32(-a) ELSE FormatU32(a)

RECURSIVE Join(_, _)
\* Vec<String>::join(sep)
Join(strs, sep) ==
    IF Len(strs) = 0 THEN <<>>
    ELSE IF Len(strs) = 1 THEN strs[1]
    ELSE strs[1] \o sep \o Join(Tail(strs), sep)

\* hex(SHA-256(data)), taken as collision-free: an injective map from the
\* payload to a digest string (the tag stands for the digest's encoding)
Sha256Hex(data) == <<"#">> \o data

(***************************************************************************)
(* Entity (src/entity/entity.rs)                                           *)
(***************************************************************************)
MIN_BALANCE == 0

EntityIds == {"Alice", "Bob"}

Entity_new(address, balance, history, public_key, private_key) ==
    [address |-> address, balance |-> balance, history |-> history,
     public_key |-> public_key, private_key |-> private_key]

InitialEntity(id, balance) ==
    IF id = "Alice"
    THEN Entity_new(<<"A">>, balance, <<>>, <<"P", "a">>, <<"k", "a">>)
    ELSE Entity_new(<<"B">>, balance, <<>>, <<"P", "b">>, <<"k", "b">>)

\* mutants of can_send: the comparison made strict, the check dropped
can_send_Strict(e, amount) == e.balance > amount

can_send_Always(e, amount) == TRUE

can_send(e, amount) == e.balance >= amount

\* mutant of send_amount: the debit applied before the check
send_amount_DebitFirst(e, amount) ==
    LET debited == [e EXCEPT !.balance = @ - amount]
    IN  IF debited.balance < 0
        THEN [ok |-> FALSE, entity |-> debited]
        ELSE [ok |-> TRUE, entity |-> debited]

\* mutant of send_amount: the balance check left out
send_amount_Unchecked(e, amount) ==
    [ok |-> TRUE, entity |-> [e EXCEPT !.balance = @ - amount]]

\* Result<(), String>: ok tells Ok from Err, entity is self afterwards
send_amount(e, amount) ==
    IF ~can_send(e, amount)
    THEN [ok |-> FALSE, entity |-> e]
    ELSE [ok |-> TRUE, entity |-> [e EXCEPT !.balance = @ - amount]]

\* mutant of receive_amount: = written for +=
receive_amount_Overwrite(e, amount) == [e EXCEPT !.balance = amount]

\* mutant of receive_amount: -= written for +=
receive_amount_Debits(e, amount) == [e EXCEPT !.balance = @ - amount]

receive_amount(e, amount) == [e EXCEPT !.balance = @ + amount]

add_to_history(e, transaction) ==
    [e EXCEPT !.history = Append(@, transaction)]

sign(e, transaction_data) == Sha256Hex(transaction_data \o e.private_key)

(***************************************************************************)
(* Transaction (src/transactions/transactions.rs)                          *)
(***************************************************************************)
Transaction_new(sender_address, receiver_address, amount_tx, signature, time_stamp) ==
    [sender_address |-> sender_address, receiver_address |-> receiver_address,
     amount |-> amount_tx, timestamp |-> time_stamp, signature |-> signature]

\* time_stamp is what get_time() answered
create_and_sign(sender, receiver, amount_tx, time_stamp) ==
    LET transaction_data == sender.address \o receiver.address
                            \o FormatF64(amount_tx) \o FormatU32(time_stamp)
        signature == sign(sender, transaction_data)
    IN  Transaction_new(sender.address, receiver.address, amount_tx,
                        signature, time_stamp)

\* Result<Transaction, String>, with the two entities as the call leaves them
create_and_execute(sender, receiver, amount, time_stamp) ==
    IF ~can_send(sender, amount)
    THEN [ok |-> FALSE, sender |-> sender, receiver |-> receiver]
    ELSE LET transaction == create_and_sign(sender, receiver, amount, time_stamp)
             sent == send_amount(sender, amount)
         IN  IF ~sent.ok
             THEN [ok |-> FALSE, sender |-> sent.entity, receiver |-> receiver]
             ELSE [ok |-> TRUE,
                   sender |-> add_to_history(sent.entity, transaction),
                   receiver |-> add_to_history(receive_amount(receiver, amount),
                                               transaction),
                   tx |-> transaction]

(***************************************************************************)
(* Block (src/block/block.rs)                                              *)
(***************************************************************************)
\* mutant of the per-transaction string: the timestamp left out
TxStr_NoTimestamp(t) ==
    t.sender_address \o t.receiver_address \o FormatF64(t.amount)

\* the string one transaction contributes to the hashed payload
TxStr(t) ==
    t.sender_address \o t.receiver_address \o FormatF64(t.amount)
    \o FormatU32(t.timestamp)

\* mutant of Block::hash: the nonce left out of the payload
hash_NoNonce(previous_hash, time_stamp, nonce, transaction) ==
    LET transaction_str ==
            Join([i \in 1..Len(transaction) |-> TxStr(transaction[i])], <<",">>)
        data_to_hash == previous_hash \o FormatU32(time_stamp) \o transaction_str
    IN  Sha256Hex(data_to_hash)

hash(previous_hash, time_stamp, nonce, transaction) ==
    LET transaction_str ==
            Join([i \in 1..Len(transaction) |-> TxStr(transaction[i])], <<",">>)
        data_to_hash == previous_hash \o FormatU32(time_stamp)
                        \o FormatU32(nonce) \o transaction_str
    IN  Sha256Hex(data_to_hash)

\* mutant of Block::new: the hash taken before the transactions are attached
Block_new_HashBeforeTx(transaction, previous_block_hash, time_stamp) ==
    LET nonce == 0
        block_hash == hash(previous_block_hash, time_stamp, nonce, <<>>)
    IN  [block_hash |-> block_hash, previous_block_hash |-> previous_block_hash,
         transaction |-> transaction, time_stamp |-> time_stamp, nonce |-> nonce]

\* mutant of Block::new: the two hash fields initialised from each other's value
Block_new_SwappedHashes(transaction, previous_block_hash, time_stamp) ==
    LET nonce == 0
        block_hash == hash(previous_block_hash, time_stamp, nonce, transaction)
    IN  [block_hash |-> previous_block_hash, previous_block_hash |-> block_hash,
         transaction |-> transaction, time_stamp |-> time_stamp, nonce |-> nonce]

\* time_stamp is what get_time() answered
Block_new(transaction, previous_block_hash, time_stamp) ==
    LET nonce == 0
        block_hash == hash(previous_block_hash, time_stamp, nonce, transaction)
    IN  [block_hash |-> block_hash, previous_block_hash |-> previous_block_hash,
         transaction |-> transaction, time_stamp |-> time_stamp, nonce |-> nonce]

calculate_hash(b) ==
    hash(b.previous_block_hash, b.time_stamp, b.nonce, b.transaction)

(***************************************************************************)
(* Blockchain (src/blockchain/blockchain.rs)                               *)
(***************************************************************************)
\* mutant of Blockchain::new: the genesis sentinel written as the empty string
Blockchain_new_EmptySentinel(time_stamp) ==
    LET genesis == Block_new(<<>>, <<>>, time_stamp)
    IN  [chain |-> <<genesis>>, difficulty |-> 3]

Blockchain_new(time_stamp) ==
    LET genesis == Block_new(<<>>, <<"0">>, time_stamp)
    IN  [chain |-> <<genesis>>, difficulty |-> 3]

get_latest_block(self) == self.chain[Len(self.chain)]

get_latest_hash(self) == self.chain[Len(self.chain)].block_hash

\* mutant of add_block: the new block linked to the latest block's own
\* previous_block_hash instead of its block_hash
add_block_StaleLink(self, transactions, time_stamp) ==
    LET previous_hash == get_latest_block(self).previous_block_hash
        new_block == Block_new(transactions, previous_hash, time_stamp)
    IN  [self EXCEPT !.chain = Append(@, new_block)]

\* mutant of add_block: the new block inserted at the front of the chain
add_block_InsertFront(self, transactions, time_stamp) ==
    LET previous_hash == get_latest_hash(self)
        new_block == Block_new(transactions, previous_hash, time_stamp)
    IN  [self EXCEPT !.chain = <<new_block>> \o @]

\* self after add_block(transactions)
add_block(self, transactions, time_stamp) ==
    LET previous_hash == get_latest_hash(self)
        new_block == Block_new(transactions, previous_hash, time_stamp)
    IN  [self EXCEPT !.chain = Append(@, new_block)]

\* mutant of is_valid: the hashes of the blocks after genesis not recomputed
is_valid_LinksOnly(self) ==
    LET c == self.chain
    IN  IF Len(c) = 0 THEN FALSE
        ELSE IF c[1].previous_block_hash # <<"0">> THEN FALSE
        ELSE IF c[1].block_hash # calculate_hash(c[1]) THEN FALSE
        ELSE \A w \in 1..(Len(c) - 1) :
                c[w + 1].previous_block_hash = c[w].block_hash

\* mutant of is_valid: the genesis sentinel not checked
is_valid_NoSentinelCheck(self) ==
    LET c == self.chain
    IN  IF Len(c) = 0 THEN FALSE
        ELSE IF c[1].block_hash # calculate_hash(c[1]) THEN FALSE
        ELSE \A w \in 1..(Len(c) - 1) :
                /\ c[w + 1].block_hash = calculate_hash(c[w + 1])
                /\ c[w + 1].previous_block_hash = c[w].block_hash

is_valid(self) ==
    LET c == self.chain
    IN  IF Len(c) = 0 THEN FALSE
        ELSE IF c[1].previous_block_hash # <<"0">> THEN FALSE
        ELSE IF c[1].block_hash # calculate_hash(c[1]) THEN FALSE
        ELSE \A w \in 1..(Len(c) - 1) :
                /\ c[w + 1].block_hash = calculate_hash(c[w + 1])
                /\ c[w + 1].previous_block_hash = c[w].block_hash

(***************************************************************************)
(* State                                                                   *)
(***************************************************************************)
VARIABLES
    entities,    \* EntityIds -> Entity
    ops,         \* entity operations performed so far
    lastCall,    \* the last entity operation: its arguments, result, pre-state
    blockchain,  \* the Blockchain: [chain, difficulty]
    tampered,    \* whether a field of a stored block was written directly
    lastStep,    \* the last chain operation: its arguments and pre-state
    transfers,   \* Threads -> a create_and_execute call in progress
    appenders    \* Threads -> an add_block call in progress

vars == <<entities, ops, lastCall, blockchain, tampered, lastStep,
          transfers, appenders>>
ledgerVars == <<entities, ops, lastCall>>
chainVars == <<blockchain, tampered, lastStep>>
raceVars == <<transfers, appenders>>

\* callers that run an operation one method call at a time
Threads == {"t1", "t2"}

\* no call is in progress
NoCalls ==
    /\ transfers = [p \in Threads |-> [pc |-> "idle"]]
    /\ appenders = [p \in Threads |-> [pc |-> "idle"]]

(***************************************************************************)
(* Entity operations, called on two entities the caller owns               *)
(***************************************************************************)
InitEntities ==
    /\ entities \in {[id \in EntityIds |-> InitialEntity(id, bal[id])] :
                        bal \in [EntityIds -> 0..MaxBalance]}
    /\ ops = 0
    /\ lastCall = [op |-> "none"]

SendAmount(id, amount) ==
    /\ ops < MaxOps
    /\ LET r == send_amount(entities[id], amount)
       IN  /\ entities' = [entities EXCEPT ![id] = r.entity]
           /\ lastCall' = [op |-> "send_amount", self |-> id, amount |-> amount,
                           ok |-> r.ok, pre |-> entities]
    /\ ops' = ops + 1
    /\ UNCHANGED <<chainVars, raceVars>>

ReceiveAmount(id, amount) ==
    /\ ops < MaxOps
    /\ entities' = [entities EXCEPT ![id] = receive_amount(@, amount)]
    /\ lastCall' = [op |-> "receive_amount", self |-> id, amount |-> amount,
                    ok |-> TRUE, pre |-> entities]
    /\ ops' = ops + 1
    /\ UNCHANGED <<chainVars, raceVars>>

\* sender and receiver are two &mut Entity, hence two different entities
CreateAndExecute(s, r, amount, time_stamp) ==
    /\ ops < MaxOps
    /\ s # r
    /\ LET res == create_and_execute(entities[s], entities[r], amount, time_stamp)
       IN  /\ entities' = [entities EXCEPT ![s] = res.sender, ![r] = res.receiver]
           /\ lastCall' = [op |-> "create_and_execute", sender |-> s,
                           receiver |-> r, amount |-> amount, ok |-> res.ok,
                           ret |-> IF res.ok THEN <<res.tx>> ELSE <<>>,
                           pre |-> entities]
    /\ ops' = ops + 1
    /\ UNCHANGED <<chainVars, raceVars>>

LedgerNext ==
    \/ \E id \in EntityIds, a \in Amounts : SendAmount(id, a)
    \/ \E id \in EntityIds, a \in Amounts : ReceiveAmount(id, a)
    \/ \E s \in EntityIds, r \in EntityIds, a \in Amounts, t \in Times :
          CreateAndExecute(s, r, a, t)

(***************************************************************************)
(* Chain operations                                                        *)
(***************************************************************************)
\* transaction lists handed to add_block: none, one and two transactions
SampleTx1 ==
    create_and_sign(InitialEntity("Alice", 0), InitialEntity("Bob", 0), 1, 1)
SampleTx2 ==
    create_and_sign(InitialEntity("Bob", 0), InitialEntity("Alice", 0), 2, 2)
TxLists ==
    {<<>>, <<SampleTx1>>, <<SampleTx2, SampleTx1>>}

InitChain ==
    /\ \E t \in Times : blockchain = Blockchain_new(t)
    /\ tampered = FALSE
    /\ lastStep = [op |-> "new"]

AddBlock(transactions, time_stamp) ==
    /\ Len(blockchain.chain) < 1 + MaxBlocks
    /\ blockchain' = add_block(blockchain, transactions, time_stamp)
    /\ lastStep' = [op |-> "add_block", transactions |-> transactions,
                    pre |-> blockchain]
    /\ UNCHANGED <<tampered, ledgerVars, raceVars>>

\* values written by direct field mutation
TamperStrings ==
    {<<"0">>, <<"1">>}
    \cup {blockchain.chain[i].block_hash : i \in 1..Len(blockchain.chain)}
TamperNumbers == {0, 1, 11}
TamperAmounts == {-1, 1, 12}

\* block i's field written with a different value, block_hash not recomputed
TamperBlock(i, field, value) ==
    /\ ~tampered
    /\ i \in 1..Len(blockchain.chain)
    /\ blockchain.chain[i][field] # value
    /\ blockchain' = [blockchain EXCEPT !.chain[i][field] = value]
    /\ tampered' = TRUE
    /\ lastStep' = [op |-> "tamper", index |-> i, field |-> field,
                    pre |-> blockchain]
    /\ UNCHANGED <<ledgerVars, raceVars>>

\* field of transaction j of block i written with a different value
TamperTransaction(i, j, field, value) ==
    /\ ~tampered
    /\ i \in 1..Len(blockchain.chain)
    /\ j \in 1..Len(blockchain.chain[i].transaction)
    /\ blockchain.chain[i].transaction[j][field] # value
    /\ blockchain' = [blockchain EXCEPT !.chain[i].transaction[j][field] = value]
    /\ tampered' = TRUE
    /\ lastStep' = [op |-> "tamper", index |-> i, field |-> field, tx |-> j,
                    pre |-> blockchain]
    /\ UNCHANGED <<ledgerVars, raceVars>>

BlockIndexes == 1..Len(blockchain.chain)
TxIndexes(i) == 1..Len(blockchain.chain[i].transaction)

ChainNext ==
    \/ \E txs \in TxLists, t \in Times : AddBlock(txs, t)
    \/ \E i \in BlockIndexes, v \in TamperStrings :
          TamperBlock(i, "block_hash", v)
    \/ \E i \in BlockIndexes, v \in TamperStrings :
          TamperBlock(i, "previous_block_hash", v)
    \/ \E i \in BlockIndexes, v \in TamperNumbers :
          TamperBlock(i, "time_stamp", v)
    \/ \E i \in BlockIndexes, v \in TamperNumbers :
          TamperBlock(i, "nonce", v)
    \/ \E i \in BlockIndexes : \E j \in TxIndexes(i), v \in TamperStrings :
          \E f \in {"sender_address", "receiver_address", "signature"} :
             TamperTransaction(i, j, f, v)
    \/ \E i \in BlockIndexes : \E j \in TxIndexes(i), v \in TamperAmounts :
          TamperTransaction(i, j, "amount", v)
    \/ \E i \in BlockIndexes : \E j \in TxIndexes(i), v \in TamperNumbers :
          TamperTransaction(i, j, "timestamp", v)

(***************************************************************************)
(* Specifications: the entities alone, and the chain alone                 *)
(***************************************************************************)
InitLedger ==
    /\ InitEntities
    /\ NoCalls
    /\ blockchain = Blockchain_new(1)
    /\ tampered = FALSE
    /\ lastStep = [op |-> "new"]

InitBlockchain ==
    /\ InitChain
    /\ NoCalls
    /\ entities = [id \in EntityIds |-> InitialEntity(id, 0)]
    /\ ops = 0
    /\ lastCall = [op |-> "none"]

SpecLedger == InitLedger /\ [][LedgerNext]_vars

SpecChain == InitBlockchain /\ [][ChainNext]_vars

(***************************************************************************)
(* Properties of the chain (checked under SpecChain)                       *)
(***************************************************************************)
Tampered(field) ==
    /\ lastStep.op = "tamper"
    /\ lastStep.field = field

\* C1: every chain reached from Blockchain::new() by add_block calls alone,
\* with any transaction lists and no direct field mutation, is valid.
C1_HonestChainIsValid ==
    ~tampered => is_valid(blockchain)

C1_Witness ==
    /\ ~tampered
    /\ Len(blockchain.chain) = 1 + MaxBlocks
    /\ \E i \in BlockIndexes : Len(blockchain.chain[i].transaction) = 2
    /\ is_valid(blockchain)

\* C2: on a chain built by new() and add_block, writing a different value to
\* the previous_block_hash of a non-genesis block, or a different string to
\* the block_hash of any block, makes is_valid() false.
C2_TamperedLinkOrHashIsInvalid ==
    ( \/ Tampered("previous_block_hash") /\ lastStep.index > 1
      \/ Tampered("block_hash") )
    => ~is_valid(blockchain)

\* the stored hash of a middle block replaced by the hash of another block
C2_Witness ==
    /\ Tampered("block_hash")
    /\ Len(blockchain.chain) = 3
    /\ lastStep.index = 2
    /\ blockchain.chain[2].block_hash = blockchain.chain[3].block_hash
    /\ ~is_valid(blockchain)

\* C3: on a valid chain, writing a different nonce to any block without
\* recomputing its block_hash makes is_valid() false.
C3_TamperedNonceIsInvalid ==
    Tampered("nonce") => ~is_valid(blockchain)

\* the nonce of an appended block that holds transactions is corrupted
C3_Witness ==
    /\ Tampered("nonce")
    /\ lastStep.index > 1
    /\ Len(blockchain.chain[lastStep.index].transaction) > 0
    /\ is_valid(lastStep.pre)
    /\ ~is_valid(blockchain)

\* C9: the block Block::new(txs, prev) returns has nonce 0, previous hash
\* prev, transactions txs, and a block_hash equal to its calculate_hash().
C9_NewBlockIsSelfConsistent ==
    /\ lastStep.op = "new" =>
          LET b == blockchain.chain[1]
          IN  /\ Len(blockchain.chain) = 1
              /\ b.nonce = 0
              /\ b.previous_block_hash = <<"0">>
              /\ b.transaction = <<>>
              /\ b.block_hash = calculate_hash(b)
    /\ lastStep.op = "add_block" =>
          LET b == get_latest_block(blockchain)
          IN  /\ b.nonce = 0
              /\ b.previous_block_hash = get_latest_hash(lastStep.pre)
              /\ b.transaction = lastStep.transactions
              /\ b.block_hash = calculate_hash(b)

C9_Witness ==
    /\ lastStep.op = "add_block"
    /\ Len(lastStep.transactions) = 2
    /\ get_latest_block(blockchain).block_hash
          = calculate_hash(get_latest_block(blockchain))

HashedBlockFields == {"time_stamp", "nonce", "previous_block_hash"}
HashedTxFields == {"sender_address", "receiver_address", "amount", "timestamp"}

HashChangedByTamper ==
    calculate_hash(blockchain.chain[lastStep.index])
        # calculate_hash(lastStep.pre.chain[lastStep.index])

\* C10 as stated: writing a different value to any one of a block's
\* time_stamp, nonce, previous_block_hash, or to any field of one of its
\* transactions, the signature included, changes calculate_hash().
C10_AnyFieldChangesHash ==
    ( /\ lastStep.op = "tamper"
      /\ lastStep.field \in HashedBlockFields \cup HashedTxFields \cup {"signature"} )
    => HashChangedByTamper

\* C10 amended: writing a different value to any one of a block's time_stamp,
\* nonce, previous_block_hash, or to the sender_address, receiver_address,
\* amount or timestamp of one of its transactions changes calculate_hash();
\* the signature is not part of the hashed payload.
C10_HashedFieldChangesHash ==
    ( /\ lastStep.op = "tamper"
      /\ lastStep.field \in HashedBlockFields \cup HashedTxFields )
    => HashChangedByTamper

\* the amount of the second transaction of a block is changed
C10_Witness ==
    /\ Tampered("amount")
    /\ lastStep.tx = 2
    /\ HashChangedByTamper

(***************************************************************************)
(* Properties of the entities (checked under SpecLedger)                   *)
(***************************************************************************)
\* C4: create_and_execute with sender.balance >= amount returns Ok(tx), debits
\* the sender by amount, credits the receiver by amount, and appends tx, and
\* nothing else, at the end of both histories.
C4_SufficientBalanceTransfers ==
    ( /\ lastCall.op = "create_and_execute"
      /\ lastCall.pre[lastCall.sender].balance >= lastCall.amount )
    => LET s == lastCall.sender
           r == lastCall.receiver
           pre == lastCall.pre
       IN  /\ lastCall.ok
           /\ Len(lastCall.ret) = 1
           /\ entities[s].balance = pre[s].balance - lastCall.amount
           /\ entities[r].balance = pre[r].balance + lastCall.amount
           /\ entities[s].history = Append(pre[s].history, lastCall.ret[1])
           /\ entities[r].history = Append(pre[r].history, lastCall.ret[1])

\* a second successful transfer of a non-zero amount: the histories held an
\* entry before
C4_Witness ==
    /\ lastCall.op = "create_and_execute"
    /\ lastCall.ok
    /\ lastCall.amount > 0
    /\ Len(lastCall.pre[lastCall.sender].history) = 1
    /\ Len(entities[lastCall.sender].history) = 2
    /\ Len(entities[lastCall.receiver].history) = 2

\* C5: create_and_execute with sender.balance < amount returns an error and
\* leaves the balance and the history of sender and receiver as they were.
C5_InsufficientBalanceChangesNothing ==
    ( /\ lastCall.op = "create_and_execute"
      /\ lastCall.pre[lastCall.sender].balance < lastCall.amount )
    => /\ ~lastCall.ok
       /\ \A id \in {lastCall.sender, lastCall.receiver} :
             /\ entities[id].balance = lastCall.pre[id].balance
             /\ entities[id].history = lastCall.pre[id].history

C5_Witness ==
    /\ lastCall.op = "create_and_execute"
    /\ lastCall.pre[lastCall.sender].balance < lastCall.amount
    /\ ~lastCall.ok
    /\ Len(entities[lastCall.sender].history) = 1

\* C6: no entity's balance ever goes below MIN_BALANCE, whatever amounts
\* send_amount, receive_amount and create_and_execute are called with.
C6_BalanceNeverNegative ==
    \A id \in EntityIds : entities[id].balance >= MIN_BALANCE

\* C7: send_amount(A) on a balance B >= A returns Ok and leaves B - A.
C7_SendDebitsOnce ==
    ( /\ lastCall.op = "send_amount"
      /\ lastCall.amount <= lastCall.pre[lastCall.self].balance )
    => /\ lastCall.ok
       /\ entities[lastCall.self].balance
             = lastCall.pre[lastCall.self].balance - lastCall.amount

\* the whole balance is sent
C7_Witness ==
    /\ lastCall.op = "send_amount"
    /\ lastCall.amount > 0
    /\ lastCall.amount = lastCall.pre[lastCall.self].balance
    /\ lastCall.ok
    /\ entities[lastCall.self].balance = 0

\* C8: send_amount(A) on a balance B < A returns an error and changes no
\* field of the entity.
C8_SendRejectedChangesNothing ==
    ( /\ lastCall.op = "send_amount"
      /\ lastCall.amount > lastCall.pre[lastCall.self].balance )
    => /\ ~lastCall.ok
       /\ entities[lastCall.self] = lastCall.pre[lastCall.self]

C8_Witness ==
    /\ lastCall.op = "send_amount"
    /\ lastCall.amount > lastCall.pre[lastCall.self].balance
    /\ ~lastCall.ok
    /\ entities[lastCall.self].balance = lastCall.pre[lastCall.self].balance

(***************************************************************************)
(* Frame and shape of the chain (checked under SpecChain)                  *)
(***************************************************************************)
\* C11: add_block(txs) appends exactly one block and changes nothing else:
\* the chain grows by one, the old chain is a prefix of the new one, and the
\* new last block holds txs and the block_hash of the former last block as
\* its previous_block_hash.
C11_AddBlockAppendsOneBlock ==
    lastStep.op = "add_block" =>
        LET old == lastStep.pre.chain
            new == blockchain.chain
        IN  /\ Len(new) = Len(old) + 1
            /\ SubSeq(new, 1, Len(old)) = old
            /\ new[Len(new)].transaction = lastStep.transactions
            /\ new[Len(new)].previous_block_hash = old[Len(old)].block_hash
            /\ blockchain.difficulty = lastStep.pre.difficulty

\* a block with two transactions appended to a chain of two blocks
C11_Witness ==
    /\ lastStep.op = "add_block"
    /\ Len(lastStep.pre.chain) = 2
    /\ Len(blockchain.chain) = 3
    /\ Len(blockchain.chain[3].transaction) = 2
    /\ blockchain.chain[3].previous_block_hash = lastStep.pre.chain[2].block_hash

\* C12: in every state reached through Blockchain::new and add_block the
\* chain holds at least one block and block 0 is the genesis block: no
\* transactions and previous_block_hash "0"; chain.last() is never None.
C12_GenesisAlwaysPresent ==
    ~tampered =>
        /\ Len(blockchain.chain) >= 1
        /\ blockchain.chain[1].transaction = <<>>
        /\ blockchain.chain[1].previous_block_hash = <<"0">>
        /\ get_latest_block(blockchain) \in
              {blockchain.chain[i] : i \in 1..Len(blockchain.chain)}

C12_Witness ==
    /\ ~tampered
    /\ Len(blockchain.chain) = 1 + MaxBlocks
    /\ blockchain.chain[1].transaction = <<>>
    /\ blockchain.chain[1].previous_block_hash = <<"0">>
    /\ get_latest_hash(blockchain) = blockchain.chain[1 + MaxBlocks].block_hash

(***************************************************************************)
(* Amounts of recorded transactions (checked under SpecLedger)             *)
(***************************************************************************)
\* C13: every transaction create_and_execute returns, and so every
\* transaction recorded in a history, has amount > 0.
C13_RecordedAmountsPositive ==
    /\ (lastCall.op = "create_and_execute" /\ lastCall.ok)
          => lastCall.ret[1].amount > 0
    /\ \A id \in EntityIds : \A k \in 1..Len(entities[id].history) :
          entities[id].history[k].amount > 0

(***************************************************************************)
(* is_valid as a function of the block sequence: the chain is drawn from   *)
(* arbitrary sequences of blocks, sealed or not, linked or not, and        *)
(* is_valid is called on it.                                               *)
(***************************************************************************)
\* a block with the given previous hash and transactions; sealed blocks store
\* their own calculate_hash(), the others a string that is no digest of theirs
SampleBlock(previous_block_hash, transaction, sealed) ==
    LET b == [block_hash |-> <<"1">>, previous_block_hash |-> previous_block_hash,
              transaction |-> transaction, time_stamp |-> 1, nonce |-> 0]
    IN  IF sealed THEN [b EXCEPT !.block_hash = calculate_hash(b)] ELSE b

FirstBlocks ==
    {SampleBlock(p, txs, k) :
        p \in {<<"0">>, <<"1">>}, txs \in {<<>>, <<SampleTx1>>}, k \in BOOLEAN}

LinkedBlocks ==
    {SampleBlock(b.block_hash, txs, k) :
        b \in FirstBlocks, txs \in {<<>>, <<SampleTx1>>}, k \in BOOLEAN}

SampleBlocks == FirstBlocks \cup LinkedBlocks

ArbitraryChains == UNION {[1..n -> SampleBlocks] : n \in 0..MaxBlocks}

InitValidate ==
    /\ \E c \in ArbitraryChains : blockchain = [chain |-> c, difficulty |-> 3]
    /\ tampered = TRUE
    /\ lastStep = [op |-> "none"]
    /\ NoCalls
    /\ entities = [id \in EntityIds |-> InitialEntity(id, 0)]
    /\ ops = 0
    /\ lastCall = [op |-> "none"]

IsValid ==
    /\ lastStep.op = "none"
    /\ lastStep' = [op |-> "is_valid", ret |-> is_valid(blockchain)]
    /\ UNCHANGED <<blockchain, tampered, ledgerVars, raceVars>>

SpecValidate == InitValidate /\ [][IsValid]_vars

\* the three conditions of the chain invariant, stated over all positions
ChainWellFormed(c) ==
    /\ Len(c) > 0
    /\ c[1].previous_block_hash = <<"0">>
    /\ \A i \in 1..Len(c) : c[i].block_hash = calculate_hash(c[i])
    /\ \A i \in 2..Len(c) : c[i].previous_block_hash = c[i - 1].block_hash

\* C14: on every block sequence is_valid() is true exactly when the sequence
\* is non-empty, block 0 has previous_block_hash "0", every block's stored
\* hash equals its calculate_hash(), and every later block's
\* previous_block_hash is the block_hash of the block before it.
C14_IsValidIffWellFormed ==
    lastStep.op = "is_valid" =>
        (lastStep.ret <=> ChainWellFormed(blockchain.chain))

\* is_valid() answered true on a chain of two linked, sealed blocks
C14_Witness ==
    /\ lastStep.op = "is_valid"
    /\ lastStep.ret
    /\ Len(blockchain.chain) = 2
    /\ Len(blockchain.chain[2].transaction) = 1

\* is_valid() answered false on the empty chain, on a chain whose only flaw is
\* the genesis sentinel, and on one whose only flaw is a broken link
C14_RejectsEachFlaw ==
    LET c == blockchain.chain
        Sealed == \A i \in 1..Len(c) : c[i].block_hash = calculate_hash(c[i])
    IN  /\ lastStep.op = "is_valid"
        /\ ~lastStep.ret
        /\ \/ Len(c) = 0
           \/ Len(c) = 2 /\ Sealed /\ c[1].previous_block_hash # <<"0">>
                         /\ c[2].previous_block_hash = c[1].block_hash
           \/ Len(c) = 2 /\ Sealed /\ c[1].previous_block_hash = <<"0">>
                         /\ c[2].previous_block_hash # c[1].block_hash

(***************************************************************************)
(* Tampering with several fields in one modification                       *)
(***************************************************************************)
\* values written to the address fields of a stored transaction
AddressStrings == {<<>>, <<"A">>, <<"B">>, <<"A", "B">>, <<"B", "A">>}

\* time_stamp and nonce of block i written together, block_hash left as it is
TamperBlockFields(i, time_stamp, nonce) ==
    /\ ~tampered
    /\ i \in 1..Len(blockchain.chain)
    /\ blockchain.chain[i].time_stamp # time_stamp
    /\ blockchain.chain[i].nonce # nonce
    /\ blockchain' = [blockchain EXCEPT !.chain[i].time_stamp = time_stamp,
                                        !.chain[i].nonce = nonce]
    /\ tampered' = TRUE
    /\ lastStep' = [op |-> "tamper", index |-> i, field |-> "time_stamp+nonce",
                    pre |-> blockchain]
    /\ UNCHANGED <<ledgerVars, raceVars>>

\* sender_address and receiver_address of transaction j of block i written
\* together, block_hash left as it is
TamperTransactionFields(i, j, sender_address, receiver_address) ==
    /\ ~tampered
    /\ i \in 1..Len(blockchain.chain)
    /\ j \in 1..Len(blockchain.chain[i].transaction)
    /\ blockchain.chain[i].transaction[j].sender_address # sender_address
    /\ blockchain.chain[i].transaction[j].receiver_address # receiver_address
    /\ blockchain' =
          [blockchain EXCEPT
              !.chain[i].transaction[j].sender_address = sender_address,
              !.chain[i].transaction[j].receiver_address = receiver_address]
    /\ tampered' = TRUE
    /\ lastStep' = [op |-> "tamper", index |-> i, tx |-> j,
                    field |-> "sender_address+receiver_address",
                    pre |-> blockchain]
    /\ UNCHANGED <<ledgerVars, raceVars>>

TamperNext ==
    \/ ChainNext
    \/ \E i \in BlockIndexes, t \in TamperNumbers, n \in TamperNumbers :
          TamperBlockFields(i, t, n)
    \/ \E i \in BlockIndexes : \E j \in TxIndexes(i) :
          \E sa \in AddressStrings, ra \in AddressStrings :
             TamperTransactionFields(i, j, sa, ra)

SpecTamper == InitBlockchain /\ [][TamperNext]_vars

\* what Block::hash is documented to cover: everything but the stored hash
\* and the signatures
HashedContent(b) ==
    [previous_block_hash |-> b.previous_block_hash,
     time_stamp |-> b.time_stamp,
     nonce |-> b.nonce,
     transaction |->
        [k \in 1..Len(b.transaction) |->
            [sender_address |-> b.transaction[k].sender_address,
             receiver_address |-> b.transaction[k].receiver_address,
             amount |-> b.transaction[k].amount,
             timestamp |-> b.transaction[k].timestamp]]]

ContentTampered ==
    /\ lastStep.op = "tamper"
    /\ is_valid(lastStep.pre)
    /\ \A i \in BlockIndexes :
          blockchain.chain[i].block_hash = lastStep.pre.chain[i].block_hash
    /\ \E i \in BlockIndexes :
          HashedContent(blockchain.chain[i]) # HashedContent(lastStep.pre.chain[i])

\* C15: on a valid chain, any modification of a block's hashed content, of
\* one field or of several at once, that leaves the stored block_hash as it
\* is makes is_valid() false.
C15_ContentTamperIsDetected ==
    ContentTampered => ~is_valid(blockchain)

(***************************************************************************)
(* create_and_execute run one entity method call at a time by two callers  *)
(* sharing the entities: the calls of one may fall between the can_send    *)
(* check and the send_amount of the other.                                 *)
(***************************************************************************)
\* whether the step from entities to next wrote a balance or a history
Wrote(next) ==
    \E id \in EntityIds :
        \/ next[id].balance # entities[id].balance
        \/ next[id].history # entities[id].history

\* step 1: sender.can_send(amount)
CanSendStep(p, s, r, amount) ==
    /\ transfers[p].pc = "idle"
    /\ s # r
    /\ transfers' =
          [transfers EXCEPT ![p] =
              IF ~can_send(entities[s], amount)
              THEN [pc |-> "done", sender |-> s, receiver |-> r,
                    amount |-> amount, ok |-> FALSE, failed_at |-> 1,
                    changed |-> FALSE]
              ELSE [pc |-> "sign", sender |-> s, receiver |-> r,
                    amount |-> amount, changed |-> FALSE]]
    /\ UNCHANGED <<ledgerVars, chainVars, appenders>>

\* steps 2 to 5: create_and_sign, with time_stamp what get_time() answered
SignStep(p, time_stamp) ==
    /\ transfers[p].pc = "sign"
    /\ LET c == transfers[p]
           transaction == create_and_sign(entities[c.sender], entities[c.receiver],
                                          c.amount, time_stamp)
       IN  transfers' = [transfers EXCEPT ![p] =
              [pc |-> "send", sender |-> c.sender, receiver |-> c.receiver,
               amount |-> c.amount, changed |-> c.changed, tx |-> transaction]]
    /\ UNCHANGED <<ledgerVars, chainVars, appenders>>

\* step 6: sender.send_amount(amount)?
SendStep(p) ==
    /\ transfers[p].pc = "send"
    /\ LET c == transfers[p]
           sent == send_amount(entities[c.sender], c.amount)
           next == [entities EXCEPT ![c.sender] = sent.entity]
       IN  /\ entities' = next
           /\ transfers' = [transfers EXCEPT ![p] =
                 IF ~sent.ok
                 THEN [pc |-> "done", sender |-> c.sender, receiver |-> c.receiver,
                       amount |-> c.amount, ok |-> FALSE, failed_at |-> 6,
                       changed |-> c.changed \/ Wrote(next),
                       had |-> entities[c.sender].balance]
                 ELSE [pc |-> "receive", sender |-> c.sender,
                       receiver |-> c.receiver, amount |-> c.amount,
                       changed |-> c.changed \/ Wrote(next), tx |-> c.tx,
                       had |-> entities[c.sender].balance]]
    /\ UNCHANGED <<ops, lastCall, chainVars, appenders>>

\* step 7: receiver.receive_amount(amount)
ReceiveStep(p) ==
    /\ transfers[p].pc = "receive"
    /\ LET c == transfers[p]
           next == [entities EXCEPT ![c.receiver] = receive_amount(@, c.amount)]
       IN  /\ entities' = next
           /\ transfers' = [transfers EXCEPT ![p].pc = "record_sender",
                                             ![p].changed = @ \/ Wrote(next)]
    /\ UNCHANGED <<ops, lastCall, chainVars, appenders>>

\* step 8: sender.add_to_history(transaction.clone())
RecordSenderStep(p) ==
    /\ transfers[p].pc = "record_sender"
    /\ LET c == transfers[p]
       IN  entities' = [entities EXCEPT ![c.sender] = add_to_history(@, c.tx)]
    /\ transfers' = [transfers EXCEPT ![p].pc = "record_receiver",
                                      ![p].changed = TRUE]
    /\ UNCHANGED <<ops, lastCall, chainVars, appenders>>

\* step 8, then 9: receiver.add_to_history(transaction.clone()); Ok(transaction)
RecordReceiverStep(p) ==
    /\ transfers[p].pc = "record_receiver"
    /\ LET c == transfers[p]
       IN  /\ entities' = [entities EXCEPT ![c.receiver] = add_to_history(@, c.tx)]
           /\ transfers' = [transfers EXCEPT ![p] =
                 [pc |-> "done", sender |-> c.sender, receiver |-> c.receiver,
                  amount |-> c.amount, ok |-> TRUE, failed_at |-> 0,
                  changed |-> TRUE, had |-> c.had, tx |-> c.tx]]
    /\ UNCHANGED <<ops, lastCall, chainVars, appenders>>

RaceNext ==
    \/ \E p \in Threads, s \in EntityIds, r \in EntityIds, a \in Amounts :
          CanSendStep(p, s, r, a)
    \/ \E p \in Threads, t \in Times : SignStep(p, t)
    \/ \E p \in Threads : SendStep(p)
    \/ \E p \in Threads : ReceiveStep(p)
    \/ \E p \in Threads : RecordSenderStep(p)
    \/ \E p \in Threads : RecordReceiverStep(p)

SpecRace == InitLedger /\ [][RaceNext]_vars

\* the call of p has gone through step 6
PastSend(p) ==
    transfers[p].pc \in {"receive", "record_sender", "record_receiver"}
    \/ (transfers[p].pc = "done" /\ transfers[p].failed_at # 1)

\* C16: a call whose sender's balance has fallen below amount between its
\* can_send check and its send_amount returns an error at step 6 and has
\* changed no balance and no history; and with positive amounts no balance
\* ever goes negative.
C16_StaleCheckFailsCleanly ==
    /\ \A p \in Threads :
          (PastSend(p) /\ transfers[p].had < transfers[p].amount) =>
              /\ transfers[p].pc = "done"
              /\ ~transfers[p].ok
              /\ transfers[p].failed_at = 6
              /\ ~transfers[p].changed
    /\ (\A p \in Threads : transfers[p].pc # "idle" => transfers[p].amount > 0)
          => \A id \in EntityIds : entities[id].balance >= 0

\* both callers passed can_send on the same sender, one was debited, and the
\* other failed at step 6
C16_Witness ==
    \E p \in Threads, q \in Threads :
        /\ p # q
        /\ transfers[p].pc = "done" /\ transfers[p].ok
        /\ transfers[q].pc = "done" /\ ~transfers[q].ok
        /\ transfers[q].failed_at = 6
        /\ transfers[p].sender = transfers[q].sender
        /\ transfers[q].amount > 0
        /\ transfers[q].had < transfers[q].amount
        /\ ~transfers[q].changed

(***************************************************************************)
(* add_block run one statement at a time by two callers sharing the chain, *)
(* with no exclusive access to its tail.                                   *)
(***************************************************************************)
\* let previous_hash = self.get_latest_hash();
ReadTailStep(p, transactions) ==
    /\ appenders[p].pc = "idle"
    /\ Len(blockchain.chain) > 0
    /\ appenders' = [appenders EXCEPT ![p] =
          [pc |-> "read", transactions |-> transactions,
           previous_hash |-> get_latest_hash(blockchain),
           seen |-> Len(blockchain.chain)]]
    /\ UNCHANGED <<ledgerVars, chainVars, transfers>>

\* let new_block = Block::new(transactions, previous_hash);
BuildStep(p, time_stamp) ==
    /\ appenders[p].pc = "read"
    /\ LET a == appenders[p]
       IN  appenders' = [appenders EXCEPT ![p] =
              [pc |-> "built", seen |-> a.seen,
               new_block |-> Block_new(a.transactions, a.previous_hash, time_stamp)]]
    /\ UNCHANGED <<ledgerVars, chainVars, transfers>>

\* self.chain.push(new_block);
PushStep(p) ==
    /\ appenders[p].pc = "built"
    /\ blockchain' = [blockchain EXCEPT !.chain = Append(@, appenders[p].new_block)]
    /\ appenders' = [appenders EXCEPT ![p] =
          [pc |-> "done", seen |-> appenders[p].seen,
           at |-> Len(blockchain.chain) + 1]]
    /\ UNCHANGED <<ledgerVars, tampered, lastStep, transfers>>

AppendNext ==
    \/ \E p \in Threads, txs \in TxLists : ReadTailStep(p, txs)
    \/ \E p \in Threads, t \in Times : BuildStep(p, t)
    \/ \E p \in Threads : PushStep(p)

SpecAppend == InitBlockchain /\ [][AppendNext]_vars

\* both calls have returned, and each read the tail before the other pushed
BothReadBeforePush ==
    /\ \A p \in Threads : appenders[p].pc = "done"
    /\ \A p \in Threads, q \in Threads : appenders[p].seen = appenders[q].seen

\* C17: when two add_block calls both read get_latest_hash() before either
\* pushes, the chain ends up with two blocks that have the same
\* previous_block_hash.
C17_InterleavedAppendsShareParent ==
    BothReadBeforePush =>
        \E i \in BlockIndexes, j \in BlockIndexes :
            /\ i # j
            /\ blockchain.chain[i].previous_block_hash
                  = blockchain.chain[j].previous_block_hash

\* the two pushed blocks differ, both name the genesis block as predecessor,
\* and the chain no longer validates
C17_Witness ==
    /\ BothReadBeforePush
    /\ Len(blockchain.chain) = 3
    /\ blockchain.chain[2] # blockchain.chain[3]
    /\ blockchain.chain[2].previous_block_hash = blockchain.chain[1].block_hash
    /\ blockchain.chain[3].previous_block_hash = blockchain.chain[1].block_hash
    /\ ~is_valid(blockchain)

(***************************************************************************)
(* Sequences of create_and_execute calls alone                             *)
(***************************************************************************)
TransferNext ==
    \E s \in EntityIds, r \in EntityIds, a \in Amounts, t \in Times :
        CreateAndExecute(s, r, a, t)

SpecTransfers == InitLedger /\ [][TransferNext]_vars

RECURSIVE SumOfBalances(_, _)
SumOfBalances(es, ids) ==
    IF ids = {} THEN 0
    ELSE LET id == CHOOSE x \in ids : TRUE
         IN  es[id].balance + SumOfBalances(es, ids \ {id})

TotalBalance(es) == SumOfBalances(es, EntityIds)

====
